---- MODULE Spec2Model ----
(***************************************************************************)
(* mLiquidMetal (src/src/main.cpp): the LiquidSim height-field wave        *)
(* simulator, its shader and the host loop that drives them.               *)
(*                                                                         *)
(* Numbers.  The program computes in single precision.  A float is         *)
(* modelled as a scaled-down binary float: an integer count of steps of    *)
(* 1/Scale (so 1.0f is Scale), finite in -FltMax..FltMax, with the three   *)
(* special values PInf, NInf and NaN.  Every arithmetic operator rounds    *)
(* its exact result to the nearest step (ties to even), gives 0 when the   *)
(* result is below half a step (underflow) and an infinity when it is      *)
(* beyond FltMax (overflow), as IEEE-754 arithmetic does at the ends of    *)
(* its range.  Signed zeros are not told apart.                            *)
(***************************************************************************)
EXTENDS Integers, Sequences, FiniteSets

\* ------------------------------------------------------------------ bounds
\* Grid size of the model (main builds LiquidSim(200, 200)).
W == 5
H == 5
\* Steps per unit of the model's float, and its largest finite value.
Scale == 64
FltMax == 40000
\* Largest radius handed to AddImpulse, and how many calls a run makes.
MaxRadius == 2
MaxImpulses == 1
MaxOps == 3
\* Iterations of main's loop in a run.
MaxTicks == 3

\* ------------------------------------------------------------- float model
PInf == FltMax + 1
NInf == -(FltMax + 1)
NaN == FltMax + 2

IsNaN(a) == a = NaN
IsInf(a) == a = PInf \/ a = NInf
IsFinite(a) == a >= -FltMax /\ a <= FltMax

Abs(n) == IF n < 0 THEN -n ELSE n
Sgn(n) == IF n < 0 THEN -1 ELSE IF n > 0 THEN 1 ELSE 0

\* n / d for d > 0, rounded to the nearest integer, ties to even.
RoundDiv(n, d) ==
    LET q == n \div d
        r == n % d
    IN  IF 2 * r < d THEN q
        ELSE IF 2 * r > d THEN q + 1
        ELSE IF q % 2 = 0 THEN q ELSE q + 1

\* An exact result brought into the float's range.
Saturate(n) == IF n > FltMax THEN PInf ELSE IF n < -FltMax THEN NInf ELSE n

\* The float nearest to the decimal literal num/den (0.2f is Dec(2, 10)).
Dec(num, den) == RoundDiv(num * Scale, den)
\* The float of an int (a conversion int -> float).
FromInt(k) == Saturate(k * Scale)
\* (int)f and (unsigned char)f of a finite float in range: truncation toward zero.
Trunc(a) == Sgn(a) * (Abs(a) \div Scale)

FNeg(a) == IF IsNaN(a) THEN NaN ELSE -a

FAdd(a, b) ==
    IF IsNaN(a) \/ IsNaN(b) THEN NaN
    ELSE IF IsInf(a) /\ IsInf(b) THEN (IF a = b THEN a ELSE NaN)
    ELSE IF IsInf(a) THEN a
    ELSE IF IsInf(b) THEN b
    ELSE Saturate(a + b)

FSub(a, b) == FAdd(a, FNeg(b))

FMul(a, b) ==
    IF IsNaN(a) \/ IsNaN(b) THEN NaN
    ELSE IF IsInf(a) \/ IsInf(b)
         THEN (IF a = 0 \/ b = 0 THEN NaN
               ELSE IF Sgn(a) * Sgn(b) > 0 THEN PInf ELSE NInf)
    ELSE Saturate(RoundDiv(a * b, Scale))

FDiv(a, b) ==
    IF IsNaN(a) \/ IsNaN(b) THEN NaN
    ELSE IF IsInf(a) /\ IsInf(b) THEN NaN
    ELSE IF IsInf(a) THEN (IF Sgn(a) * Sgn(b) >= 0 THEN PInf ELSE NInf)
    ELSE IF IsInf(b) THEN 0
    ELSE IF b = 0 THEN (IF a = 0 THEN NaN ELSE IF a > 0 THEN PInf ELSE NInf)
    ELSE Saturate(RoundDiv(a * Scale * Sgn(b), Abs(b)))

\* a > b and a < b on floats: false when either is NaN.
FGt(a, b) == ~IsNaN(a) /\ ~IsNaN(b) /\ a > b
FLt(a, b) == ~IsNaN(a) /\ ~IsNaN(b) /\ a < b

FAbs(a) == IF IsNaN(a) THEN NaN ELSE Abs(a)

\* floor(sqrt(n)) by bisection on lo..hi, lo*lo <= n < (hi+1)*(hi+1).
RECURSIVE ISqrt(_, _, _)
ISqrt(n, lo, hi) ==
    IF lo >= hi THEN lo
    ELSE LET mid == (lo + hi + 1) \div 2
         IN  IF mid * mid <= n THEN ISqrt(n, mid, hi) ELSE ISqrt(n, lo, mid - 1)

\* std::sqrt, correctly rounded.
FSqrt(a) ==
    IF IsNaN(a) \/ a < 0 THEN NaN
    ELSE IF a = PInf THEN PInf
    ELSE LET n == a * Scale
             r == ISqrt(n, 0, FltMax)
         IN  IF n - r * r > r THEN r + 1 ELSE r

\* std::exp(-dist2 * 0.5f) for dist2 = 0, 1, 2, ..., in millionths.
ExpNegHalfMicro ==
    << 1000000, 606531, 367879, 223130, 135335, 82085, 49787, 30197, 18316,
       11109, 6738, 4087, 2479, 1503, 912, 553, 335, 203, 123 >>

Exp(dist2) ==
    IF dist2 + 1 <= Len(ExpNegHalfMicro)
    THEN RoundDiv(ExpNegHalfMicro[dist2 + 1] * Scale, 1000000)
    ELSE 0

\* x to the power 0.6 for the floats x of [0, 1]: the fifth root of x cubed,
\* rounded down.
Pow06Table ==
    [a \in 0..Scale |->
        CHOOSE b \in 0..Scale :
            /\ b ^ 5 <= (a ^ 3) * (Scale ^ 2)
            /\ (b + 1) ^ 5 > (a ^ 3) * (Scale ^ 2)]

\* powf(a, 0.6f) for a in [0, 1] or NaN.
Powf06(a) == IF IsNaN(a) THEN NaN ELSE Pow06Table[a]

\* raymath's Clamp(value, min, max).
Clamp(value, min, max) ==
    LET result == IF FLt(value, min) THEN min ELSE value
    IN  IF FGt(result, max) THEN max ELSE result

\* ---------------------------------------------------------------- the grid
\* LiquidSim::idx
idx(x, y) == y * W + x

Cells == 0..(W * H - 1)
XOf(c) == c % W
YOf(c) == c \div W

\* The cells the loops of Step and RenderToImage visit, in the loops' order
\* (y outer, x inner).
InteriorSeq ==
    [k \in 1..((W - 2) * (H - 2)) |->
        << 1 + ((k - 1) % (W - 2)), 1 + ((k - 1) \div (W - 2)) >>]

InteriorCells == { idx(InteriorSeq[k][1], InteriorSeq[k][2]) : k \in DOMAIN InteriorSeq }
BoundaryCells == Cells \ InteriorCells

ZeroGrid == [c \in Cells |-> 0]

\* LiquidSim's configuration, set by its constructor.
stiffness == Dec(2, 10)
damping == Dec(985, 1000)
\* The literal Step multiplies the velocity by.
StepDecay == Dec(94, 100)

\* ------------------------------------------------------------- AddImpulse
\* A square one cell wider than asked for.
SquareSeqWide(radius) ==
    [k \in 1..((2 * radius + 3) * (2 * radius + 3)) |->
        << ((k - 1) % (2 * radius + 3)) - radius - 1,
           ((k - 1) \div (2 * radius + 3)) - radius - 1 >>]

\* The (i, j) the loops of AddImpulse visit, in order (j outer, i inner).
SquareSeq(radius) ==
    IF radius < 0 THEN << >>
    ELSE [k \in 1..((2 * radius + 1) * (2 * radius + 1)) |->
            << ((k - 1) % (2 * radius + 1)) - radius,
               ((k - 1) \div (2 * radius + 1)) - radius >>]

\* The guard of AddImpulse's inner loop.
ImpulseGuardLoose(nx, ny) == nx >= 0 /\ nx <= W - 1 /\ ny >= 0 /\ ny <= H - 1
ImpulseGuard(nx, ny) == nx > 0 /\ nx < W - 1 /\ ny > 0 /\ ny < H - 1

\* One pass of AddImpulse's inner loop body, on s = [h, acc]: the height grid
\* and the array indices accessed so far.
ImpulseBody(s, x, y, amount, i, j) ==
    LET nx == x + i
        ny == y + j
    IN  IF ImpulseGuard(nx, ny)
        THEN LET dist2 == i * i + j * j
                 falloff == Exp(dist2)
                 at == idx(nx, ny)
             IN  [h |-> IF at \in DOMAIN s.h
                        THEN [s.h EXCEPT ![at] = FAdd(s.h[at], FMul(amount, falloff))]
                        ELSE s.h,
                  acc |-> s.acc \cup {at}]
        ELSE s

RECURSIVE ImpulseLoop(_, _, _, _, _, _)
ImpulseLoop(s, x, y, amount, sq, k) ==
    IF k > Len(sq) THEN s
    ELSE ImpulseLoop(ImpulseBody(s, x, y, amount, sq[k][1], sq[k][2]),
                     x, y, amount, sq, k + 1)

\* LiquidSim::AddImpulse on height grid h: the new grid and the indices accessed.
AddImpulseOp(h, x, y, amount, radius) ==
    ImpulseLoop([h |-> h, acc |-> {}], x, y, amount, SquareSeq(radius), 1)

\* ------------------------------------------------------------------- Step
\* The force on cell (x, y) from height grid h (the first loop's body).
Force(h, x, y) ==
    LET center == h[idx(x, y)]
        sumNeighbors ==
            FAdd(FAdd(FAdd(h[idx(x - 1, y)], h[idx(x + 1, y)]), h[idx(x, y - 1)]),
                 h[idx(x, y + 1)])
    IN  FMul(FSub(sumNeighbors, FMul(FromInt(4), center)), stiffness)

\* The second loop's body on s = [h, v]: damp the velocity, then integrate.
IntegrateBody(s, x, y) ==
    LET at == idx(x, y)
        vel == FMul(s.v[at], StepDecay)
    IN  [h |-> [s.h EXCEPT ![at] = FAdd(s.h[at], vel)],
         v |-> [s.v EXCEPT ![at] = vel]]

\* A loop body that integrates right after the force (one fused pass).
ForceBodyFused(s, x, y) ==
    IntegrateBody([h |-> s.h,
                   v |-> [s.v EXCEPT ![idx(x, y)] = FAdd(s.v[idx(x, y)], Force(s.h, x, y))]],
                  x, y)
\* The first loop's body on s = [h, v]: add the force to the velocity.
ForceBody(s, x, y) ==
    [h |-> s.h,
     v |-> [s.v EXCEPT ![idx(x, y)] = FAdd(s.v[idx(x, y)], Force(s.h, x, y))]]

RECURSIVE ForceLoop(_, _)
ForceLoop(s, k) ==
    IF k > Len(InteriorSeq) THEN s
    ELSE ForceLoop(ForceBody(s, InteriorSeq[k][1], InteriorSeq[k][2]), k + 1)

RECURSIVE IntegrateLoop(_, _)
IntegrateLoop(s, k) ==
    IF k > Len(InteriorSeq) THEN s
    ELSE IntegrateLoop(IntegrateBody(s, InteriorSeq[k][1], InteriorSeq[k][2]), k + 1)

\* One loop over the interior that runs both bodies per cell.
RECURSIVE FusedLoop(_, _)
FusedLoop(s, k) ==
    IF k > Len(InteriorSeq) THEN s
    ELSE FusedLoop(IntegrateBody(ForceBody(s, InteriorSeq[k][1], InteriorSeq[k][2]),
                                 InteriorSeq[k][1], InteriorSeq[k][2]), k + 1)

StepOpFused(s) == FusedLoop(s, 1)
\* LiquidSim::Step on s = [h, v]: the first loop to its end, then the second.
StepOp(s) == IntegrateLoop(ForceLoop(s, 1), 1)

\* ------------------------------------------------------------ the shader
\* Colours are <<r, g, b, a>>.
envRight == << 200, 180, 160, 255 >>
envLeft == << 160, 180, 200, 255 >>
envUp == << 180, 200, 255, 255 >>
envDown == << 40, 40, 50, 255 >>
envFront == << 120, 130, 150, 255 >>
envBack == << 80, 70, 60, 255 >>
BLACK == << 0, 0, 0, 255 >>

\* A lookup that lets the earlier axis win a tie.
SampleCubemapTiesFirst(n) ==
    LET ax == FAbs(n[1])
        ay == FAbs(n[2])
        az == FAbs(n[3])
    IN  IF ~FLt(ax, ay) /\ ~FLt(ax, az)
        THEN (IF FGt(n[1], 0) THEN envRight ELSE envLeft)
        ELSE IF ~FLt(ay, az)
        THEN (IF FGt(n[2], 0) THEN envUp ELSE envDown)
        ELSE (IF FGt(n[3], 0) THEN envFront ELSE envBack)
\* LiquidSim::SampleCubemap on the vector n = <<x, y, z>>.
SampleCubemap(n) ==
    LET ax == FAbs(n[1])
        ay == FAbs(n[2])
        az == FAbs(n[3])
    IN  IF FGt(ax, ay) /\ FGt(ax, az)
        THEN (IF FGt(n[1], 0) THEN envRight ELSE envLeft)
        ELSE IF FGt(ay, az)
        THEN (IF FGt(n[2], 0) THEN envUp ELSE envDown)
        ELSE (IF FGt(n[3], 0) THEN envFront ELSE envBack)

\* (unsigned char)f: truncation for f in [0, 256); anything else is undefined
\* behaviour, and gives the value ub the build happens to produce.
InUCharRange(a) == IsFinite(a) /\ Trunc(a) >= 0 /\ Trunc(a) <= 255
ToUChar(a, ub) == IF InUCharRange(a) THEN Trunc(a) ELSE ub

\* The normal RenderToImage builds from the height differences dx and dy:
\* [len, n], the length computed and the vector handed on.
NormalOf(n0, len) ==
    [len |-> len,
     n |-> IF FGt(len, 0)
           THEN << FDiv(n0[1], len), FDiv(n0[2], len), FDiv(n0[3], len) >>
           ELSE n0]

Length(n0) ==
    FSqrt(FAdd(FAdd(FMul(n0[1], n0[1]), FMul(n0[2], n0[2])), FMul(n0[3], n0[3])))

CandidateFlat(dx, dy) == << FNeg(dx), FNeg(dy), 0 >>
Candidate(dx, dy) == << FNeg(dx), FNeg(dy), FromInt(1) >>

NormalFrom(n0) == NormalOf(n0, Length(n0))

\* The normal of pixel (x, y) of height grid h.
Normal(h, x, y) ==
    NormalFrom(Candidate(FSub(h[idx(x + 1, y)], h[idx(x - 1, y)]),
                         FSub(h[idx(x, y + 1)], h[idx(x, y - 1)])))

\* The chrome brightness of a pixel with normal n: boosted * 255.0f.
Chrome(n, lightDir) ==
    FMul(Powf06(Clamp(FAdd(Dec(4, 10),
                           FMul(FAdd(FAdd(FMul(n[1], lightDir[1]),
                                          FMul(n[2], lightDir[2])),
                                     FMul(n[3], FromInt(1))),
                                Dec(6, 10))),
                      0, FromInt(1))),
         FromInt(255))

\* One channel of the blend of chrome and environment.
Blend(chrome, ch, ub) ==
    ToUChar(FAdd(FMul(FromInt(chrome), Dec(4, 10)), FMul(FromInt(ch), Dec(6, 10))), ub)

\* The pixel from the chrome brightness and the environment colour; undef
\* says that the conversion of the brightness was undefined behaviour.
Composite(chrome, env, ub) ==
    [px |-> << Blend(ToUChar(chrome, ub), env[1], ub),
               Blend(ToUChar(chrome, ub), env[2], ub),
               Blend(ToUChar(chrome, ub), env[3], ub), 180 >>,
     env |-> env,
     undef |-> ~InUCharRange(chrome)]

ShadeNormal(n, lightDir, ub) ==
    Composite(Chrome(n, lightDir), SampleCubemap(n), ub)

\* The body of RenderToImage's loop for pixel (x, y): [px, env], the colour
\* written and the environment colour sampled.
Shade(h, x, y, lightDir, ub) == ShadeNormal(Normal(h, x, y).n, lightDir, ub)

\* The cells RenderToImage's loops visit, and where the pixel of (x, y) goes.
RenderCells == InteriorSeq
PixelIndexShifted(x, y) == idx(x - 1, y - 1)
PixelIndex(x, y) == idx(x, y)

\* The loop body's write, on s = [img, env, undef]: the image, per pixel the
\* environment colour sampled for it, and whether a conversion was undefined.
WritePixel(s, x, y, sh) ==
    [img |-> [s.img EXCEPT ![PixelIndex(x, y)] = sh.px],
     env |-> [s.env EXCEPT ![idx(x, y)] = sh.env],
     undef |-> s.undef \/ sh.undef]

\* RenderToImage's loops.
RECURSIVE RenderLoop(_, _, _, _, _)
RenderLoop(s, h, lightDir, ub, k) ==
    IF k > Len(RenderCells) THEN s
    ELSE RenderLoop(WritePixel(s, RenderCells[k][1], RenderCells[k][2],
                               Shade(h, RenderCells[k][1], RenderCells[k][2],
                                     lightDir, ub)),
                    h, lightDir, ub, k + 1)

RenderStart(image) ==
    [img |-> image, env |-> [c \in Cells |-> << >>], undef |-> FALSE]

\* What a call of RenderToImage can leave: one outcome, or, when a float that
\* is no unsigned char was converted to one, an outcome per value the
\* conversion may give.
RenderOutcomes(image, h, lightDir) ==
    LET r == RenderLoop(RenderStart(image), h, lightDir, 0, 1)
    IN  IF r.undef
        THEN {r, RenderLoop(RenderStart(image), h, lightDir, 255, 1)}
        ELSE {r}

\* main's light direction: (-0.4, -0.6) divided by the length of (-0.4, -0.6, 1).
LightDir ==
    LET lx == FNeg(Dec(4, 10))
        ly == FNeg(Dec(6, 10))
        len == FSqrt(FAdd(FAdd(FMul(lx, lx), FMul(ly, ly)), FromInt(1)))
    IN  << FDiv(lx, len), FDiv(ly, len) >>

\* ------------------------------------------------------------------ state
VARIABLES
    heightField,    \* LiquidSim::heightField, by array index
    velocityField,  \* LiquidSim::velocityField, by array index
    img,            \* main's image: a colour per array index
    envSel,         \* per pixel, the colour SampleCubemap gave the last render
    accessed,       \* the array indices the last AddImpulse read or wrote
    lastOp,         \* the last call made, with its arguments
    pre,            \* heightField, velocityField and img before that call
    nOps,           \* calls made so far
    nImp,           \* AddImpulse calls made so far
    pc,             \* main: where the loop body stands
    tick,           \* main: loop iterations begun
    tickOps,        \* main: the calls of the iteration under way, in order
    forceDone,      \* per-cell Step: cells whose force update has run
    integDone,      \* per-cell Step: cells whose integration update has run
    cubeIn,         \* the vector of the last direct SampleCubemap call
    cubeOut         \* and the colour it returned

simVars == << heightField, velocityField, img, envSel, accessed, lastOp, pre >>
apiVars == << nOps, nImp >>
mainVars == << pc, tick, tickOps >>
parVars == << forceDone, integDone >>
cubeVars == << cubeIn, cubeOut >>
vars == << simVars, apiVars, mainVars, parVars, cubeVars >>

NoOp == [op |-> "none", x |-> 0, y |-> 0, amount |-> 0, radius |-> 0]
Snapshot == [h |-> heightField, v |-> velocityField, img |-> img]

\* The state LiquidSim's constructor and GenImageColor(.., BLACK) leave.
SimInit ==
    /\ heightField = ZeroGrid
    /\ velocityField = ZeroGrid
    /\ img = [c \in Cells |-> BLACK]
    /\ envSel = [c \in Cells |-> << >>]
    /\ accessed = {}
    /\ lastOp = NoOp
    /\ pre = [h |-> ZeroGrid, v |-> ZeroGrid, img |-> [c \in Cells |-> BLACK]]

ApiIdle == nOps = 0 /\ nImp = 0
MainIdle == pc = "idle" /\ tick = 0 /\ tickOps = << >>
ParIdle == forceDone = {} /\ integDone = {}
CubeIdle == cubeIn = << >> /\ cubeOut = << >>
IdleInit == ApiIdle /\ MainIdle /\ ParIdle /\ CubeIdle

\* sim.AddImpulse(x, y, amount, radius)
CallAddImpulse(x, y, amount, radius) ==
    LET r == AddImpulseOp(heightField, x, y, amount, radius)
    IN  /\ heightField' = r.h
        /\ accessed' = r.acc
        /\ lastOp' = [op |-> "AddImpulse", x |-> x, y |-> y,
                      amount |-> amount, radius |-> radius]
        /\ pre' = Snapshot
        /\ UNCHANGED << velocityField, img, envSel >>

\* sim.Step()
CallStep ==
    LET r == StepOp([h |-> heightField, v |-> velocityField])
    IN  /\ heightField' = r.h
        /\ velocityField' = r.v
        /\ lastOp' = [NoOp EXCEPT !.op = "Step"]
        /\ pre' = Snapshot
        /\ UNCHANGED << img, envSel, accessed >>

\* sim.RenderToImage(img, lightDir)
CallRender(lightDir) ==
    \E r \in RenderOutcomes(img, heightField, lightDir) :
            /\ img' = r.img
            /\ envSel' = r.env
            /\ lastOp' = [NoOp EXCEPT !.op = "Render"]
            /\ pre' = Snapshot
            /\ UNCHANGED << heightField, velocityField, accessed >>

\* ----------------------------------------------- the API, called in any order
\* Where the calls of a run aim: off the grid, on the boundary ring's corner,
\* on the interior's corner and in the middle.
Sites == { << -1, -1 >>, << 0, 0 >>, << 1, 1 >>, << 2, 2 >> }
Radii == 0..MaxRadius
\* -1.5f (what main passes), the smallest positive float, and a float whose
\* square is beyond FltMax.
AmountHost == FNeg(Dec(15, 10))
Amounts == { AmountHost, 1, 2 * FSqrt(FltMax) }

Init == SimInit /\ IdleInit

AddImpulse ==
    /\ nOps < MaxOps /\ nImp < MaxImpulses
    /\ \E at \in Sites, amount \in Amounts, radius \in Radii :
          CallAddImpulse(at[1], at[2], amount, radius)
    /\ nOps' = nOps + 1 /\ nImp' = nImp + 1
    /\ UNCHANGED << mainVars, parVars, cubeVars >>

Step ==
    /\ nOps < MaxOps
    /\ CallStep
    /\ nOps' = nOps + 1
    /\ UNCHANGED << nImp, mainVars, parVars, cubeVars >>

RenderToImage ==
    /\ nOps < MaxOps
    /\ CallRender(LightDir)
    /\ nOps' = nOps + 1
    /\ UNCHANGED << nImp, mainVars, parVars, cubeVars >>

Next == AddImpulse \/ Step \/ RenderToImage

Spec == Init /\ [][Next]_vars

\* ------------------------------------------- one AddImpulse, any arguments
\* The call's coordinates range over the grid and one cell beyond it.
Coords == (-1)..W

\* The fields the call is made on: the constructed one, and one in motion.
MovingField == StepOp([h |-> AddImpulseOp(ZeroGrid, 2, 2, AmountHost, 1).h, v |-> ZeroGrid])

InitImpulse ==
    /\ SimInit /\ IdleInit

StartMoving ==
    /\ nOps = 0 /\ lastOp = NoOp /\ heightField = ZeroGrid
    /\ heightField' = MovingField.h
    /\ velocityField' = MovingField.v
    /\ pre' = [pre EXCEPT !.h = MovingField.h, !.v = MovingField.v]
    /\ UNCHANGED << img, envSel, accessed, lastOp, apiVars, mainVars, parVars, cubeVars >>

AddImpulseAny ==
    /\ nOps = 0
    /\ \E x \in Coords, y \in Coords, amount \in Amounts, radius \in Radii :
          CallAddImpulse(x, y, amount, radius)
    /\ nOps' = 1 /\ nImp' = 1
    /\ UNCHANGED << mainVars, parVars, cubeVars >>

NextImpulse == StartMoving \/ AddImpulseAny

SpecImpulse == InitImpulse /\ [][NextImpulse]_vars

\* ------------------------------------------------------------ main's loop
\* The window's drawable width and height, and where the pointer can be.
DrawW == 2 * W
DrawH == 2 * H
MouseXs == { 2 * k + 1 : k \in (-1)..W }
MouseYs == { 2 * k + 1 : k \in (-1)..H }

\* (int)(curMouse.x * (float)simWidth / (float)drawW)
ToSim(m, simSize, drawSize) ==
    Trunc(FDiv(FMul(FromInt(m), FromInt(simSize)), FromInt(drawSize)))

\* The order of the loop body's steps.
LoopOrderRenderFirst == << "poll", "clear", "render", "step" >>
LoopOrder == << "poll", "step", "clear", "render" >>

PcAfter(p) ==
    LET k == CHOOSE i \in DOMAIN LoopOrder : LoopOrder[i] = p
    IN  LoopOrder[(k % Len(LoopOrder)) + 1]

InitMain ==
    /\ SimInit /\ ApiIdle /\ ParIdle /\ CubeIdle
    /\ pc = "poll" /\ tick = 0 /\ tickOps = << >>

\* The head of an iteration: the window is open, and the pointer is read.
MouseInteraction ==
    /\ pc = "poll" /\ tick < MaxTicks
    /\ \E down \in BOOLEAN, mx \in MouseXs, my \in MouseYs :
          LET ix == ToSim(mx, W, DrawW)
              iy == ToSim(my, H, DrawH)
          IN  IF down /\ ix > 1 /\ ix < W - 1 /\ iy > 1 /\ iy < H - 1
              THEN /\ CallAddImpulse(ix, iy, AmountHost, 3)
                   /\ tickOps' = << lastOp' >>
              ELSE /\ UNCHANGED simVars
                   /\ tickOps' = << >>
    /\ tick' = tick + 1
    /\ pc' = PcAfter(pc)
    /\ UNCHANGED << apiVars, parVars, cubeVars >>

SimStep ==
    /\ pc = "step"
    /\ CallStep
    /\ tickOps' = Append(tickOps, lastOp')
    /\ pc' = PcAfter(pc)
    /\ UNCHANGED << tick, apiVars, parVars, cubeVars >>

\* ImageClearBackground(&img, BLACK)
ClearImage ==
    /\ pc = "clear"
    /\ img' = [c \in Cells |-> BLACK]
    /\ pc' = PcAfter(pc)
    /\ UNCHANGED << heightField, velocityField, envSel, accessed, lastOp, pre,
                    tick, tickOps, apiVars, parVars, cubeVars >>

Render ==
    /\ pc = "render"
    /\ CallRender(LightDir)
    /\ tickOps' = Append(tickOps, lastOp')
    /\ pc' = PcAfter(pc)
    /\ UNCHANGED << tick, apiVars, parVars, cubeVars >>

\* WindowShouldClose() at the head of an iteration.
CloseWindow ==
    /\ pc = "poll"
    /\ pc' = "closed"
    /\ UNCHANGED << simVars, tick, tickOps, apiVars, parVars, cubeVars >>

NextMain == MouseInteraction \/ SimStep \/ ClearImage \/ Render \/ CloseWindow

SpecMain == InitMain /\ [][NextMain]_vars

\* ------------------------------------- Step's passes, one cell at a time
\* The fields the passes start from.
ParStarts ==
    { [h |-> AddImpulseOp(MovingField.h, 1, 1, a, 1).h, v |-> MovingField.v] :
        a \in Amounts }

InitPar ==
    /\ \E s \in ParStarts :
          /\ heightField = s.h
          /\ velocityField = s.v
          /\ pre = [h |-> s.h, v |-> s.v, img |-> [c \in Cells |-> BLACK]]
    /\ img = [c \in Cells |-> BLACK]
    /\ envSel = [c \in Cells |-> << >>]
    /\ accessed = {}
    /\ lastOp = NoOp
    /\ ApiIdle /\ MainIdle /\ ParIdle /\ CubeIdle

\* The first loop's body runs for a cell it has not run for yet.
ForceCell ==
    /\ \E k \in DOMAIN InteriorSeq :
          LET x == InteriorSeq[k][1]
              y == InteriorSeq[k][2]
              r == ForceBody([h |-> heightField, v |-> velocityField], x, y)
          IN  /\ idx(x, y) \notin forceDone
              /\ heightField' = r.h
              /\ velocityField' = r.v
              /\ forceDone' = forceDone \cup {idx(x, y)}
    /\ UNCHANGED << integDone, img, envSel, accessed, lastOp, pre,
                    apiVars, mainVars, cubeVars >>

\* The second loop's body runs for a cell, once the first loop is over.
IntegrateCell ==
    /\ forceDone = InteriorCells
    /\ \E k \in DOMAIN InteriorSeq :
          LET x == InteriorSeq[k][1]
              y == InteriorSeq[k][2]
              r == IntegrateBody([h |-> heightField, v |-> velocityField], x, y)
          IN  /\ idx(x, y) \notin integDone
              /\ heightField' = r.h
              /\ velocityField' = r.v
              /\ integDone' = integDone \cup {idx(x, y)}
    /\ UNCHANGED << forceDone, img, envSel, accessed, lastOp, pre,
                    apiVars, mainVars, cubeVars >>

NextPar == ForceCell \/ IntegrateCell

SpecPar == InitPar /\ [][NextPar]_vars

\* --------------------------------------------- SampleCubemap, any vector
CubeComponents == { -Scale, -1, 0, 1, Scale, NaN }

InitCube == SimInit /\ IdleInit

SampleCall ==
    /\ \E x \in CubeComponents, y \in CubeComponents, z \in CubeComponents :
          /\ cubeIn' = << x, y, z >>
          /\ cubeOut' = SampleCubemap(<< x, y, z >>)
    /\ UNCHANGED << simVars, apiVars, mainVars, parVars >>

NextCube == SampleCall

SpecCube == InitCube /\ [][NextCube]_vars

\* ================================================================ claims
\* The outer ring of the grid, as coordinates name it.
OuterRing ==
    { c \in Cells : XOf(c) = 0 \/ XOf(c) = W - 1 \/ YOf(c) = 0 \/ YOf(c) = H - 1 }
Inner == Cells \ OuterRing

\* The array indices of the axis-adjacent neighbours of cell c.
Adjacent(c) == { c - 1, c + 1, c - W, c + W }

AllFinite(g) == \A c \in Cells : IsFinite(g[c])

\* C1 (boundary invariance): whatever calls of AddImpulse and Step were made,
\* every cell of the outer ring has height 0 and velocity 0.
C1_BoundaryInvariance ==
    \A c \in OuterRing : heightField[c] = 0 /\ velocityField[c] = 0

\* C1's case: an impulse and a Step have run and a cell next to the ring moves.
C1_Witness ==
    /\ nImp >= 1 /\ lastOp.op = "Step"
    /\ \E c \in Inner :
          /\ Adjacent(c) \cap OuterRing # {}
          /\ heightField[c] # 0 /\ velocityField[c] # 0
    /\ \A c \in OuterRing : heightField[c] = 0 /\ velocityField[c] = 0

\* What one Step makes of cell c of the fields h and v it starts from, by the
\* claim's formula: decay * (v + stiffness * (sum of the 4 neighbours - 4 * own)).
C2_NewVelocity(h, v, c) ==
    FMul(FAdd(v[c],
              FMul(FSub(FAdd(FAdd(FAdd(h[c - 1], h[c + 1]), h[c - W]), h[c + W]),
                        FMul(FromInt(4), h[c])),
                   stiffness)),
         StepDecay)

C2_PassOrdering ==
    lastOp.op = "Step" =>
        \A c \in Inner :
            /\ velocityField[c] = C2_NewVelocity(pre.h, pre.v, c)
            /\ heightField[c] = FAdd(pre.h[c], velocityField[c])

\* The Step started from a field at rest whose only nonzero height is at the
\* interior cell c0.
C2_SingleCell(c0) ==
    /\ lastOp.op = "Step"
    /\ c0 \in Inner
    /\ pre.v = ZeroGrid
    /\ pre.h[c0] # 0
    /\ \A c \in Cells \ {c0} : pre.h[c] = 0

\* C2 as claimed (pass ordering): a Step gives every interior cell the
\* velocity and height of the formula over the heights before the Step, and
\* from a single nonzero interior cell it leaves every axis-adjacent interior
\* neighbour with nonzero velocity.
C2_AsClaimed ==
    /\ C2_PassOrdering
    /\ \A c0 \in Cells :
          C2_SingleCell(c0) =>
              \A c \in Adjacent(c0) \cap Inner : velocityField[c] # 0

\* C2 as amended (pass ordering): the formula holds for every interior cell,
\* and from a single nonzero interior cell of height h0 every axis-adjacent
\* interior neighbour gets the velocity decay * (stiffness * h0), which is
\* nonzero unless that product rounds to zero.
C2_Amended ==
    /\ C2_PassOrdering
    /\ \A c0 \in Cells :
          C2_SingleCell(c0) =>
              \A c \in Adjacent(c0) \cap Inner :
                  /\ velocityField[c] = FMul(FMul(pre.h[c0], stiffness), StepDecay)
                  /\ (FMul(FMul(pre.h[c0], stiffness), StepDecay) # 0
                        => velocityField[c] # 0)

\* C2's case: a Step from a single nonzero cell with four interior
\* neighbours, all of which now move, as does the cell itself.
C2_Witness ==
    \E c0 \in Inner :
        /\ C2_SingleCell(c0)
        /\ Adjacent(c0) \subseteq Inner
        /\ \A c \in Adjacent(c0) : velocityField[c] # 0 /\ heightField[c] # 0
        /\ heightField[c0] # pre.h[c0]

\* The last call was AddImpulse, on the all-zero field, aimed at an interior cell.
C3_Case ==
    /\ lastOp.op = "AddImpulse"
    /\ pre.h = ZeroGrid
    /\ lastOp.x > 0 /\ lastOp.x < W - 1
    /\ lastOp.y > 0 /\ lastOp.y < H - 1

C4_ConfiguredDamping ==
    lastOp.op = "Step" =>
        \A c \in Inner :
            velocityField[c] =
                FMul(FAdd(pre.v[c],
                          FMul(FSub(FAdd(FAdd(FAdd(pre.h[c - 1], pre.h[c + 1]),
                                              pre.h[c - W]), pre.h[c + W]),
                                    FMul(FromInt(4), pre.h[c])),
                               stiffness)),
                     damping)

\* The interior cells inside the (2*radius+1)-square around (x, y).
C5_Reach(x, y, radius) ==
    { c \in Inner : Abs(XOf(c) - x) <= radius /\ Abs(YOf(c) - y) <= radius }

\* C5 (out-of-range impulse): AddImpulse accesses only array indices of
\* interior cells inside the square around (x, y), leaves every other cell and
\* the whole velocity grid as they were, and changes nothing at all when the
\* square holds no interior cell.
C5_SilentNoOp ==
    lastOp.op = "AddImpulse" =>
        /\ accessed \subseteq C5_Reach(lastOp.x, lastOp.y, lastOp.radius)
        /\ \A c \in Cells \ accessed : heightField[c] = pre.h[c]
        /\ velocityField = pre.v
        /\ img = pre.img
        /\ (C5_Reach(lastOp.x, lastOp.y, lastOp.radius) = {}
              => accessed = {} /\ heightField = pre.h)

\* C5's case: a call aimed off the grid, with no interior cell in reach, on a
\* field in motion.
C5_Witness ==
    /\ lastOp.op = "AddImpulse"
    /\ lastOp.x < 0
    /\ C5_Reach(lastOp.x, lastOp.y, lastOp.radius) = {}
    /\ pre.h # ZeroGrid /\ pre.v # ZeroGrid
    /\ heightField = pre.h /\ velocityField = pre.v

\* The calls of the iteration under way, by name.
C6_Kinds == [k \in DOMAIN tickOps |-> tickOps[k].op]

\* C6 (per-tick ordering): the calls of an iteration are at most one
\* AddImpulse (amount -1.5, radius 3), then one Step, then one Render, with
\* nothing between the Step and the Render.
C6_TickOrdering ==
    /\ pc = "step" => C6_Kinds \in { << >>, << "AddImpulse" >> }
    /\ pc \in { "clear", "render" } =>
          C6_Kinds \in { << "Step" >>, << "AddImpulse", "Step" >> }
    /\ (pc \in { "poll", "closed" } /\ tick > 0) =>
          C6_Kinds \in { << "Step", "Render" >>, << "AddImpulse", "Step", "Render" >> }
    /\ \A k \in DOMAIN tickOps :
          tickOps[k].op = "AddImpulse" =>
              tickOps[k].amount = AmountHost /\ tickOps[k].radius = 3
    /\ (pc \in { "poll", "closed" } /\ tick > 0) =>
          /\ lastOp.op = "Render"
          /\ tickOps[Len(tickOps) - 1].op = "Step"
          /\ pre.h = heightField /\ pre.v = velocityField

\* C6's case: the second iteration is over and made all three calls.
C6_Witness ==
    /\ pc = "poll" /\ tick = 2
    /\ C6_Kinds = << "AddImpulse", "Step", "Render" >>

\* C7 (render frame): a Render leaves the height grid, the velocity grid and
\* every pixel of the outer ring as they were.
C7_RenderFrame ==
    lastOp.op = "Render" =>
        /\ heightField = pre.h
        /\ velocityField = pre.v
        /\ \A c \in OuterRing : img[c] = pre.img[c]

\* C7's case: a Render of a field in motion that rewrote every interior pixel.
C7_Witness ==
    /\ lastOp.op = "Render"
    /\ heightField # ZeroGrid /\ velocityField # ZeroGrid
    /\ \A c \in Inner : img[c] # pre.img[c]
    /\ \A c \in OuterRing : img[c] = BLACK

\* The colour of an axis (1, 2, 3 for x, y, z) by the sign of n's component.
C8_Face(n, axis) ==
    IF axis = 1 THEN (IF n[1] > 0 THEN envRight ELSE envLeft)
    ELSE IF axis = 2 THEN (IF n[2] > 0 THEN envUp ELSE envDown)
    ELSE (IF n[3] > 0 THEN envFront ELSE envBack)

\* The axes whose absolute component is the largest of n.
C8_Largest(n) ==
    { a \in 1..3 : \A b \in 1..3 : Abs(n[a]) >= Abs(n[b]) }

C8_Min(S) == CHOOSE a \in S : \A b \in S : a <= b
C8_Max(S) == CHOOSE a \in S : \A b \in S : a >= b

C8_Called == cubeIn # << >> /\ \A a \in 1..3 : ~IsNaN(cubeIn[a])

\* C8 as claimed (tie-break): of the axes sharing the largest absolute
\* component the first in the order x, y, z gives the colour.
C8_AsClaimed ==
    C8_Called => cubeOut = C8_Face(cubeIn, C8_Min(C8_Largest(cubeIn)))

\* C8 as amended (tie-break): of the axes sharing the largest absolute
\* component the last in the order x, y, z gives the colour, by the sign of
\* its component (the negative face for a component that is not positive).
C8_Amended ==
    C8_Called => cubeOut = C8_Face(cubeIn, C8_Max(C8_Largest(cubeIn)))

\* C8's case: x and y tie for the largest component, and y's face is chosen.
C8_Witness ==
    /\ C8_Called
    /\ C8_Largest(cubeIn) = { 1, 2 }
    /\ cubeIn[1] > 0 /\ cubeIn[2] > 0
    /\ cubeOut = envUp

\* C9 (order independence): whatever order the cells of a pass were taken in,
\* the first pass ends with what the row-major loop gives, and so does the
\* second.
C9_OrderIndependence ==
    /\ (forceDone = InteriorCells /\ integDone = {}) =>
          [h |-> heightField, v |-> velocityField] = ForceLoop([h |-> pre.h, v |-> pre.v], 1)
    /\ integDone = InteriorCells =>
          [h |-> heightField, v |-> velocityField] = StepOp([h |-> pre.h, v |-> pre.v])

\* C9's case: both passes are over, and every interior cell has moved.
C9_Witness ==
    /\ forceDone = InteriorCells /\ integDone = InteriorCells
    /\ \A c \in Inner : heightField[c] # pre.h[c] /\ velocityField[c] # pre.v[c]

\* The squared length Render computes for the pixel at interior cell c.
C10_SquaredLength(c) ==
    LET dx == FSub(heightField[c + 1], heightField[c - 1])
        dy == FSub(heightField[c + W], heightField[c - W])
    IN  FAdd(FAdd(FMul(dx, dx), FMul(dy, dy)), FMul(FromInt(1), FromInt(1)))

C10_NormalAt(c) == Normal(heightField, XOf(c), YOf(c))

\* C10 as claimed (normal faces the viewer): in a Render of a finite height
\* field no pixel takes the zero-length fallback, every normal has z > 0 and
\* no pixel gets the -Z colour.
C10_AsClaimed ==
    (lastOp.op = "Render" /\ AllFinite(heightField)) =>
        \A c \in Inner :
            /\ FGt(C10_NormalAt(c).len, 0)
            /\ FGt(C10_NormalAt(c).n[3], 0)
            /\ envSel[c] # envBack

\* C10 as amended (normal faces the viewer): in a Render of a finite height
\* field no pixel takes the zero-length fallback, and every pixel whose
\* squared length dx*dx + dy*dy + 1 is finite has a normal with z > 0 and does
\* not get the -Z colour.
C10_Amended ==
    (lastOp.op = "Render" /\ AllFinite(heightField)) =>
        \A c \in Inner :
            /\ FGt(C10_NormalAt(c).len, 0)
            /\ IsFinite(C10_SquaredLength(c)) =>
                  /\ FGt(C10_NormalAt(c).n[3], 0)
                  /\ envSel[c] # envBack

\* C10's case: a Render of a field with a slope steep enough for the x colour
\* and a flat pixel with the +Z colour, every squared length finite.
C10_Witness ==
    /\ lastOp.op = "Render" /\ AllFinite(heightField)
    /\ \A c \in Inner : IsFinite(C10_SquaredLength(c))
    /\ \E c \in Inner : envSel[c] \in { envLeft, envRight }
    /\ \E c \in Inner : envSel[c] = envFront

====
